---- MODULE Spec2Model ----
(***************************************************************************)
(* Model of the timeline engine of rust_core/src/lib.rs: the data model    *)
(* (Clip, Timeline, Project), the command dispatcher Engine::handle, the   *)
(* playhead resolution Engine::get_clip_for_time and the project           *)
(* management entry points of the FFI boundary.                            *)
(*                                                                         *)
(* u64 and usize are modelled as 0..MaxU64 with arithmetic modulo          *)
(* MaxU64 + 1.  An arithmetic overflow panics when the crate is built with *)
(* overflow checks (the dev profile) and wraps otherwise (the release      *)
(* profile): a step whose arithmetic overflows has both outcomes.  A panic *)
(* unwinds into an extern "C" function, which aborts the process, so a     *)
(* panicked engine takes no further step.                                  *)
(***************************************************************************)
EXTENDS Integers, Sequences, FiniteSets, TLC

VARIABLES
    project,            \* Engine.project
    current_file_path,  \* Engine.current_file_path
    is_dirty,           \* Engine.is_dirty
    playback_state,     \* Engine.playback_state
    panicked,           \* the last call panicked
    now,                \* the wall clock as the engine last read it
    cmd,                \* the last call and its arguments
    event               \* the EngineEvent the last call returned, if any

vars == <<project, current_file_path, is_dirty, playback_state,
          panicked, now, cmd, event>>

---------------------------------------------------------------------------
(* Bounds of the model *)

\* largest value of the modelled unsigned integer type
MaxU64 == 3
\* longest timeline the model builds
MaxClips == 2
\* largest wall-clock reading
MaxClock == 1
\* longest clip id, in tokens (a split appends two tokens to the id)
MaxIdLen == 3

Modulus == MaxU64 + 1
U64 == 0..MaxU64
\* the indices a caller tries on timelines of up to cap clips
Indices(cap) == 0..cap
Times == 0..MaxClock

---------------------------------------------------------------------------
(* Data model *)

\* Option<T>
None == [none |-> TRUE]
Some(x) == [some |-> x]

BaseIds == {"a", "b"}
UrlOf(id) == IF id = "a" THEN "file://a" ELSE "file://b"

\* the in/out points a caller hands to engine_add_clip: the longest range,
\* an empty range and an inverted one (nothing at the boundary rejects them)
InputRanges == { <<0, MaxU64>>, <<MaxU64 - 1, MaxU64 - 1>>, <<MaxU64, 1>> }

InputClips ==
    { [id |-> <<"a">>, url |-> UrlOf("a"),
       in_point |-> r[1], out_point |-> r[2]] : r \in InputRanges }

\* the clips and trim requests of the whole-engine specification
ProjectClips ==
    { [id |-> <<"a">>, url |-> UrlOf("a"), in_point |-> 0, out_point |-> 2] }
ProjectRanges == { <<1, 2>>, <<1, 1>> }
ProjectPositions == {1}
ProjectSeeks == {1, MaxU64}
ProjectDeltas == {1}

\* the trim requests of the command-processor specification: every valid
\* range, and the invalid ones with in = out, in = out + 1 and in > out + 1
EditRanges ==
    { r \in U64 \X U64 : r[1] < r[2] }
      \cup { <<1, 1>>, <<2, 1>>, <<MaxU64, 0>> }

\* the trim requests of the editing-commands specification
TimelineRanges == { <<1, MaxU64>>, <<0, 1>>, <<1, 1>>, <<2, 1>> }

\* the clock readings of the command-processor specification
EditTimes == {MaxClock}

TimelineDefault == [clips |-> <<>>]

UntitledProject == "Untitled Project"
ProjectNames == {UntitledProject, "P"}

ProjectNew(name, t) ==
    [name |-> name, timeline |-> TimelineDefault,
     created_at |-> t, modified_at |-> t]

update_modified_time(p, t) == [p EXCEPT !.modified_at = t]

PlaybackStateDefault == [is_playing |-> FALSE, time_ms |-> 0]

---------------------------------------------------------------------------
(* Machine arithmetic *)

WrapAdd(a, b) == (a + b) % Modulus
WrapSub(a, b) == (a - b + Modulus) % Modulus
AddOverflows(a, b) == a + b > MaxU64
SubOverflows(a, b) == a < b
Min(a, b) == IF a <= b THEN a ELSE b

\* a computed value, or the panic of an overflow check
Ok(v) == [panic |-> FALSE, value |-> v]
Panic == [panic |-> TRUE, value |-> 0]

---------------------------------------------------------------------------
(* Vec operations *)

VecInsert(s, i, x) == SubSeq(s, 1, i) \o <<x>> \o SubSeq(s, i + 1, Len(s))
VecRemove(s, i) == SubSeq(s, 1, i) \o SubSeq(s, i + 2, Len(s))
VecPush(s, x) == Append(s, x)

---------------------------------------------------------------------------
(* Engine::handle, one operator per match arm *)

\* AddClip that ignores the index and always appends
ApplyAddClip_Append(clips, clip, idx) == VecPush(clips, clip)

\* Command::AddClip(clip, idx)
ApplyAddClip(clips, clip, idx) ==
    IF idx <= Len(clips)
    THEN VecInsert(clips, idx, clip)
    ELSE VecPush(clips, clip)

\* RemoveClip that clamps an index past the end to the last clip
ApplyRemoveClip_Clamped(clips, idx) ==
    IF idx < Len(clips) THEN VecRemove(clips, idx)
    ELSE IF clips = <<>> THEN clips
    ELSE VecRemove(clips, Len(clips) - 1)

\* Command::RemoveClip(idx)
ApplyRemoveClip(clips, idx) ==
    IF idx < Len(clips) THEN VecRemove(clips, idx) ELSE clips

\* format!("{}-{}-A", clip.id, timestamp): an id is a sequence of tokens
SplitId(id, timestamp, suffix) == id \o <<timestamp, suffix>>

first_clip(clip, position, timestamp) ==
    [id |-> SplitId(clip.id, timestamp, "A"), url |-> clip.url,
     in_point |-> clip.in_point, out_point |-> position]

second_clip(clip, position, timestamp) ==
    [id |-> SplitId(clip.id, timestamp, "B"), url |-> clip.url,
     in_point |-> position, out_point |-> clip.out_point]

\* the guard of the split with the in_point itself accepted
CutAccepted_Inclusive(clips, idx, position) ==
    /\ idx < Len(clips)
    /\ position >= clips[idx + 1].in_point
    /\ position < clips[idx + 1].out_point

\* the guard of the split
CutAccepted(clips, idx, position) ==
    /\ idx < Len(clips)
    /\ position > clips[idx + 1].in_point
    /\ position < clips[idx + 1].out_point

\* CutClip that inserts the two halves in the wrong order
ApplyCutClip_Swapped(clips, idx, position, timestamp) ==
    IF CutAccepted(clips, idx, position)
    THEN LET clip == clips[idx + 1]
             removed == VecRemove(clips, idx)
             withFirst == VecInsert(removed, idx,
                                    first_clip(clip, position, timestamp))
         IN  VecInsert(withFirst, idx, second_clip(clip, position, timestamp))
    ELSE clips

\* Command::CutClip(idx, position); timestamp is the SystemTime::now() reading
ApplyCutClip(clips, idx, position, timestamp) ==
    IF CutAccepted(clips, idx, position)
    THEN LET clip == clips[idx + 1]
             removed == VecRemove(clips, idx)
             withSecond == VecInsert(removed, idx,
                                     second_clip(clip, position, timestamp))
         IN  VecInsert(withSecond, idx, first_clip(clip, position, timestamp))
    ELSE clips

\* UpdateClipRange that accepts an empty range
ApplyUpdateClipRange_Inclusive(clips, idx, in_point, out_point) ==
    IF idx < Len(clips) /\ in_point <= out_point
    THEN [clips EXCEPT ![idx + 1].in_point = in_point,
                       ![idx + 1].out_point = out_point]
    ELSE clips

\* Command::UpdateClipRange(idx, in_point, out_point)
ApplyUpdateClipRange(clips, idx, in_point, out_point) ==
    IF idx < Len(clips) /\ in_point < out_point
    THEN [clips EXCEPT ![idx + 1].in_point = in_point,
                       ![idx + 1].out_point = out_point]
    ELSE clips

\* clips.iter().map(|c| c.out_point - c.in_point).sum(), folded from the left
RECURSIVE SumDurations(_, _, _)
SumDurations(clips, acc, checks) ==
    IF clips = <<>> THEN Ok(acc)
    ELSE LET c == Head(clips)
             d == WrapSub(c.out_point, c.in_point)
         IN  IF checks /\ SubOverflows(c.out_point, c.in_point) THEN Panic
             ELSE IF checks /\ AddOverflows(acc, d) THEN Panic
             ELSE SumDurations(Tail(clips), WrapAdd(acc, d), checks)

total_duration(clips, checks) == SumDurations(clips, 0, checks)

\* Command::Seek(time)
ApplySeek(ps, clips, time, checks) ==
    LET total == total_duration(clips, checks)
    IN  IF total.panic THEN Panic
        ELSE Ok([ps EXCEPT !.time_ms = Min(time, total.value)])

\* a Tick that advances the playhead whether or not the engine is playing
ApplyTick_Always(ps, clips, delta_ms, checks) ==
    LET total == total_duration(clips, checks)
        new_time == WrapAdd(ps.time_ms, delta_ms)
    IN  IF total.panic THEN Panic
        ELSE IF checks /\ AddOverflows(ps.time_ms, delta_ms) THEN Panic
        ELSE IF new_time >= total.value
             THEN Ok([is_playing |-> FALSE, time_ms |-> total.value])
             ELSE Ok([ps EXCEPT !.time_ms = new_time])

\* Command::Tick(delta_ms)
ApplyTick(ps, clips, delta_ms, checks) ==
    IF ps.is_playing
    THEN LET total == total_duration(clips, checks)
             new_time == WrapAdd(ps.time_ms, delta_ms)
         IN  IF total.panic THEN Panic
             ELSE IF checks /\ AddOverflows(ps.time_ms, delta_ms) THEN Panic
             ELSE IF new_time >= total.value
                  THEN Ok([is_playing |-> FALSE, time_ms |-> total.value])
                  ELSE Ok([ps EXCEPT !.time_ms = new_time])
    ELSE Ok(ps)

\* a dirty test that counts the playback commands only
MarksDirty_PlaybackOnly(c) == c.op \in {"Play", "Pause", "Seek"}

\* a dirty test that counts the editing commands only
MarksDirty_EditsOnly(c) ==
    c.op \in {"AddClip", "RemoveClip", "CutClip", "UpdateClipRange"}

\* !matches!(cmd, Command::Tick(_))
MarksDirty(c) == c.op # "Tick"

\* the clips after the match on the command
MatchClips(clips, c, timestamp) ==
    CASE c.op = "AddClip" -> ApplyAddClip(clips, c.clip, c.idx)
      [] c.op = "RemoveClip" -> ApplyRemoveClip(clips, c.idx)
      [] c.op = "CutClip" -> ApplyCutClip(clips, c.idx, c.position, timestamp)
      [] c.op = "UpdateClipRange" ->
             ApplyUpdateClipRange(clips, c.idx, c.in_point, c.out_point)
      [] OTHER -> clips

\* a dispatcher whose Play also rewinds the playhead
MatchPlayback_PlayRewinds(ps, clips, c, checks) ==
    CASE c.op = "Play" -> Ok([is_playing |-> TRUE, time_ms |-> 0])
      [] c.op = "Pause" -> Ok([ps EXCEPT !.is_playing = FALSE])
      [] c.op = "Seek" -> ApplySeek(ps, clips, c.time, checks)
      [] c.op = "Tick" -> ApplyTick(ps, clips, c.delta_ms, checks)
      [] OTHER -> Ok(ps)

\* the playback state after the match on the command, or a panic
MatchPlayback(ps, clips, c, checks) ==
    CASE c.op = "Play" -> Ok([ps EXCEPT !.is_playing = TRUE])
      [] c.op = "Pause" -> Ok([ps EXCEPT !.is_playing = FALSE])
      [] c.op = "Seek" -> ApplySeek(ps, clips, c.time, checks)
      [] c.op = "Tick" -> ApplyTick(ps, clips, c.delta_ms, checks)
      [] OTHER -> Ok(ps)

\* an event that announces an empty timeline whatever the timeline is
TimelineChanged_Empty(timeline) == Some(TimelineDefault)

\* EngineEvent::TimelineChanged(timeline), as the caller receives it
TimelineChanged(timeline) == Some(timeline)

\* Engine::handle(cmd); t is the wall clock, read for the split timestamp
\* and by update_modified_time
handle(c, t) ==
    /\ ~panicked
    /\ cmd' = c
    /\ UNCHANGED current_file_path
    /\ IF project = None
       THEN /\ event' = TimelineChanged(TimelineDefault)
            /\ UNCHANGED <<project, is_dirty, playback_state, now, panicked>>
       ELSE LET clips == project.some.timeline.clips
                wrapped == MatchPlayback(playback_state, clips, c, FALSE)
                checked == MatchPlayback(playback_state, clips, c, TRUE)
                matched == [project.some EXCEPT !.timeline.clips =
                                MatchClips(clips, c, t)]
            IN  \/ /\ checked.panic
                   /\ panicked' = TRUE
                   /\ UNCHANGED <<project, is_dirty, playback_state, now,
                                  event>>
                \/ /\ playback_state' = wrapped.value
                   /\ IF MarksDirty(c)
                      THEN /\ project' =
                                  Some(update_modified_time(matched, t))
                           /\ is_dirty' = TRUE
                           /\ now' = t
                      ELSE /\ project' = Some(matched)
                           /\ UNCHANGED <<is_dirty, now>>
                   /\ event' = TimelineChanged(project'.some.timeline)
                   /\ UNCHANGED panicked

\* Engine::get_clip_for_time: the scan from the clip at the head of cs on
RECURSIVE ScanClips(_, _, _, _)
ScanClips(cs, time_ms, current_time, checks) ==
    IF cs = <<>> THEN Ok(None)
    ELSE LET clip == Head(cs)
             clip_duration == WrapSub(clip.out_point, clip.in_point)
             end == WrapAdd(current_time, clip_duration)
             offset == time_ms - current_time
         IN  IF checks /\ SubOverflows(clip.out_point, clip.in_point)
             THEN Panic
             ELSE IF time_ms >= current_time
                     /\ checks /\ AddOverflows(current_time, clip_duration)
             THEN Panic
             ELSE IF time_ms >= current_time /\ time_ms < end
             THEN IF checks /\ AddOverflows(clip.in_point, offset)
                  THEN Panic
                  ELSE Ok(Some([clip |-> clip,
                                time_within_clip |->
                                    WrapAdd(clip.in_point, offset)]))
             ELSE IF checks /\ AddOverflows(current_time, clip_duration)
             THEN Panic
             ELSE ScanClips(Tail(cs), time_ms, end, checks)

get_clip_for_time(p, ps, checks) ==
    IF p = None THEN Ok(None)
    ELSE ScanClips(p.some.timeline.clips, ps.time_ms, 0, checks)

---------------------------------------------------------------------------
(* Project interchange: serde_json *)

\* the fields of a serialized Project
ProjectFields == {"name", "timeline", "created_at", "modified_at"}

\* serde_json::to_string_pretty(project): the document as a field map
to_json(p) == [f \in ProjectFields |-> p[f]]

\* what engine_load_project_from_json can be handed: documents of projects
\* written earlier, the same with a field lost, and text that is no JSON
StoredProjects ==
    { [name |-> "P",
       timeline |-> [clips |-> cs],
       created_at |-> 0, modified_at |-> 0] :
        cs \in { << [id |-> <<"a">>, url |-> UrlOf("a"),
                     in_point |-> 0, out_point |-> 2] >>,
                 << [id |-> <<"b">>, url |-> UrlOf("b"),
                     in_point |-> 2, out_point |-> 1] >> } }

DropField(doc, f) == [g \in (DOMAIN doc) \ {f} |-> doc[g]]

JsonDocs ==
    { to_json(p) : p \in StoredProjects }
      \cup { DropField(to_json(p), "created_at") : p \in StoredProjects }
      \cup { [garbage |-> TRUE] }

\* a deserializer that fills in a missing created_at
from_json_Lenient(doc) ==
    IF (ProjectFields \ {"created_at"}) \subseteq DOMAIN doc
    THEN [project |-> [name |-> doc["name"], timeline |-> doc["timeline"],
                       created_at |-> 0,
                       modified_at |-> doc["modified_at"]],
          ok |-> TRUE]
    ELSE [project |-> None, ok |-> FALSE]

\* serde_json::from_str::<Project>: every field must be present
from_json(doc) ==
    IF ProjectFields \subseteq DOMAIN doc
    THEN [project |-> [name |-> doc["name"], timeline |-> doc["timeline"],
                       created_at |-> doc["created_at"],
                       modified_at |-> doc["modified_at"]],
          ok |-> TRUE]
    ELSE [project |-> None, ok |-> FALSE]

---------------------------------------------------------------------------
(* State machine *)

\* The records of cmd are written with their fields in the order in which
\* TLC keeps them (the order in which the field names first occur in the
\* module), so that TLC's workers never reorder a record they share.

\* Engine::new()
Init ==
    /\ now \in Times
    /\ project = Some(ProjectNew(UntitledProject, now))
    /\ current_file_path = None
    /\ is_dirty = TRUE
    /\ playback_state = PlaybackStateDefault
    /\ panicked = FALSE
    /\ cmd = [op |-> "engine_new"]
    /\ event = None

\* the clips of the current project (none when no project is loaded)
Clips == IF project = None THEN <<>> ELSE project.some.timeline.clips

\* engine_add_clip
AddClip(clipInputs, times, cap) ==
    \E clip \in clipInputs, idx \in Indices(cap), t \in times :
        /\ Len(Clips) < cap
        /\ handle([clip |-> clip, idx |-> idx, op |-> "AddClip"], t)

\* engine_remove_clip
RemoveClip(times, cap) ==
    \E idx \in Indices(cap), t \in times :
        handle([idx |-> idx, op |-> "RemoveClip"], t)

\* engine_cut_clip
CutClip(positionInputs, times, cap) ==
    \E idx \in Indices(cap), position \in positionInputs, t \in times :
        /\ CutAccepted(Clips, idx, position) =>
              /\ Len(Clips) < cap
              /\ Len(Clips[idx + 1].id) + 2 <= MaxIdLen
        /\ handle([idx |-> idx, position |-> position, op |-> "CutClip"], t)

\* engine_update_clip_range
UpdateClipRange(rangeInputs, times, cap) ==
    \E idx \in Indices(cap), r \in rangeInputs, t \in times :
        handle([in_point |-> r[1], out_point |-> r[2], idx |-> idx,
                op |-> "UpdateClipRange"], t)

\* engine_play
Play(times) == \E t \in times : handle([op |-> "Play"], t)

\* engine_pause
Pause(times) == \E t \in times : handle([op |-> "Pause"], t)

\* engine_seek
Seek(timeInputs, times) ==
    \E time \in timeInputs, t \in times :
        handle([time |-> time, op |-> "Seek"], t)

\* engine_tick; the clock is not read
Tick(deltaInputs) ==
    \E delta_ms \in deltaInputs :
        handle([delta_ms |-> delta_ms, op |-> "Tick"], now)

\* engine_get_current_playback_clip_info
GetCurrentPlaybackClipInfo ==
    /\ ~panicked
    /\ \/ /\ get_clip_for_time(project, playback_state, TRUE).panic
          /\ cmd' = [op |-> "get_clip_for_time"]
          /\ panicked' = TRUE
          /\ UNCHANGED event
       \/ /\ cmd' = [op |-> "get_clip_for_time",
                     result |->
                         get_clip_for_time(project, playback_state,
                                           FALSE).value]
          /\ event' = None
          /\ UNCHANGED panicked
    /\ UNCHANGED <<project, current_file_path, is_dirty, playback_state, now>>

\* engine_load_project_from_json
LoadProjectFromJson ==
    \E json_data \in JsonDocs :
        LET r == from_json(json_data)
        IN  /\ ~panicked
            /\ cmd' = [op |-> "engine_load_project_from_json",
                       result |-> r.ok, json_data |-> json_data]
            /\ event' = None
            /\ IF r.ok
               THEN /\ project' = Some(r.project)
                    /\ current_file_path' = None
                    /\ is_dirty' = FALSE
               ELSE UNCHANGED <<project, current_file_path, is_dirty>>
            /\ UNCHANGED <<playback_state, panicked, now>>

FilePaths == {"/p.json"}

\* engine_set_current_file_path; a null pointer clears the path
SetCurrentFilePath ==
    \E file_path \in {None} \cup {Some(f) : f \in FilePaths} :
        /\ ~panicked
        /\ cmd' = [op |-> "engine_set_current_file_path",
                   file_path |-> file_path]
        /\ event' = None
        /\ current_file_path' = file_path
        /\ UNCHANGED <<project, is_dirty, playback_state, panicked, now>>

\* engine_mark_as_saved
MarkAsSaved ==
    /\ ~panicked
    /\ cmd' = [op |-> "engine_mark_as_saved"]
    /\ event' = None
    /\ is_dirty' = FALSE
    /\ UNCHANGED <<project, current_file_path, playback_state, panicked, now>>

\* a new project that leaves the playback state as it is
NewProject_KeepsPlayback ==
    \E name \in {None} \cup {Some(n) : n \in ProjectNames}, t \in Times :
        LET project_name == IF name = None THEN UntitledProject ELSE name.some
        IN  /\ ~panicked
            /\ cmd' = [name |-> name, op |-> "engine_new_project"]
            /\ event' = None
            /\ now' = t
            /\ project' = Some(ProjectNew(project_name, t))
            /\ current_file_path' = None
            /\ is_dirty' = TRUE
            /\ UNCHANGED <<playback_state, panicked>>

\* engine_new_project; a null name gives the default name
NewProject ==
    \E name \in {None} \cup {Some(n) : n \in ProjectNames}, t \in Times :
        LET project_name == IF name = None THEN UntitledProject ELSE name.some
        IN  /\ ~panicked
            /\ cmd' = [name |-> name, op |-> "engine_new_project"]
            /\ event' = None
            /\ now' = t
            /\ project' = Some(ProjectNew(project_name, t))
            /\ current_file_path' = None
            /\ is_dirty' = TRUE
            /\ playback_state' = PlaybackStateDefault
            /\ UNCHANGED panicked

\* The whole engine: every entry point of the boundary.
Next ==
    \/ AddClip(ProjectClips, Times, MaxClips)
    \/ RemoveClip(Times, MaxClips)
    \/ CutClip(ProjectPositions, Times, MaxClips)
    \/ UpdateClipRange(ProjectRanges, Times, MaxClips)
    \/ Play(Times)
    \/ Pause(Times)
    \/ Seek(ProjectSeeks, Times)
    \/ Tick(ProjectDeltas)
    \/ GetCurrentPlaybackClipInfo
    \/ LoadProjectFromJson
    \/ SetCurrentFilePath
    \/ MarkAsSaved
    \/ NewProject

Spec == Init /\ [][Next]_vars

\* The command processor on its own: the eight commands and the playhead
\* query, with the full range of clip and trim inputs.
NextEdit ==
    \/ AddClip(InputClips, EditTimes, MaxClips)
    \/ RemoveClip(EditTimes, MaxClips)
    \/ CutClip(U64, EditTimes, MaxClips)
    \/ UpdateClipRange(EditRanges, EditTimes, MaxClips)
    \/ Play(EditTimes)
    \/ Pause(EditTimes)
    \/ Seek(U64, EditTimes)
    \/ Tick(U64)
    \/ GetCurrentPlaybackClipInfo

InitEdit == Init /\ now \in EditTimes

SpecEdit == InitEdit /\ [][NextEdit]_vars

\* The four editing commands on their own, on timelines one clip longer.
NextTimeline ==
    \/ AddClip(InputClips, EditTimes, MaxClips + 1)
    \/ RemoveClip(EditTimes, MaxClips + 1)
    \/ CutClip(U64, EditTimes, MaxClips + 1)
    \/ UpdateClipRange(TimelineRanges, EditTimes, MaxClips + 1)

SpecTimeline == InitEdit /\ [][NextTimeline]_vars

\* Engine::handle on engines built field by field: the fields of Engine are
\* public, so a caller of the crate can hold an engine with no project.
EngineProjects ==
    {None} \cup { Some(p) : p \in StoredProjects }

InitHandle ==
    /\ now \in EditTimes
    /\ project \in EngineProjects
    /\ current_file_path \in {None} \cup { Some(f) : f \in FilePaths }
    /\ is_dirty \in BOOLEAN
    /\ playback_state \in [is_playing : BOOLEAN, time_ms : {0, 1}]
    /\ panicked = FALSE
    /\ cmd = [op |-> "Engine"]
    /\ event = None

NextHandle ==
    \/ AddClip(ProjectClips, EditTimes, MaxClips)
    \/ RemoveClip(EditTimes, MaxClips)
    \/ CutClip(ProjectPositions, EditTimes, MaxClips)
    \/ UpdateClipRange(ProjectRanges, EditTimes, MaxClips)
    \/ Play(EditTimes)
    \/ Pause(EditTimes)
    \/ Seek(ProjectSeeks, EditTimes)
    \/ Tick(ProjectDeltas)

SpecHandle == InitHandle /\ [][NextHandle]_vars

\* Playing out: the engine is set up by edits, Play and Seek; from the first
\* Tick on, nothing but Ticks of at least one millisecond is delivered, and
\* they keep being delivered.
PlayoutDeltas == 1..MaxU64

NextPlayout ==
    \/ cmd.op # "Tick" /\ AddClip(InputClips, EditTimes, MaxClips)
    \/ cmd.op # "Tick" /\ RemoveClip(EditTimes, MaxClips)
    \/ cmd.op # "Tick" /\ UpdateClipRange(TimelineRanges, EditTimes, MaxClips)
    \/ cmd.op # "Tick" /\ Play(EditTimes)
    \/ cmd.op # "Tick" /\ Seek(U64, EditTimes)
    \/ Tick(PlayoutDeltas)

SpecPlayout ==
    InitEdit /\ [][NextPlayout]_vars /\ WF_vars(Tick(PlayoutDeltas))

---------------------------------------------------------------------------
(* Vocabulary of the properties *)

time_ms == playback_state.time_ms
is_playing == playback_state.is_playing
modified_at == project.some.modified_at

Valid(clip) == clip.in_point < clip.out_point
AllValid(clips) == \A i \in 1..Len(clips) : Valid(clips[i])

\* the sum of out_point - in_point over the clips, as an integer
RECURSIVE Duration(_)
Duration(clips) ==
    IF clips = <<>> THEN 0
    ELSE (Head(clips).out_point - Head(clips).in_point) + Duration(Tail(clips))

EditOps == {"AddClip", "RemoveClip", "CutClip", "UpdateClipRange"}
PlaybackOps == {"Play", "Pause", "Seek", "Tick"}
CommandOps == EditOps \cup PlaybackOps

\* the step is a call of handle that returned
Returned(op) == cmd'.op = op /\ ~panicked'

---------------------------------------------------------------------------
(* C1.  Every clip in the timeline has in_point < out_point, in every      *)
(* reachable state.  The code does not keep this: AddClip inserts the      *)
(* caller's clip unchecked.                                                *)
C1_ClipsValid == AllValid(Clips)

(* C2.  No operation panics: handle and get_clip_for_time always return.   *)
(* Stated for timelines of valid clips; the code does not keep it where    *)
(* its u64 arithmetic overflows.                                           *)
C2_NoPanic == AllValid(Clips) => ~panicked

(* C3.  With a project loaded, every command except Tick that returns      *)
(* leaves is_dirty = TRUE and modified_at at the clock reading of the      *)
(* call, whether or not it changed the timeline; Tick changes neither      *)
(* is_dirty nor modified_at.                                               *)
C3_DirtyPropagation ==
    [][ /\ (project # None /\ cmd'.op \in CommandOps \ {"Tick"} /\ ~panicked')
            => (is_dirty' /\ modified_at' = now')
        /\ (project # None /\ cmd'.op = "Tick")
            => (is_dirty' = is_dirty /\ modified_at' = modified_at) ]_vars

\* a RemoveClip with an index past the end left a loaded project dirty,
\* with modified_at refreshed away from its stored value
C3_Witness ==
    /\ cmd.op = "RemoveClip"
    /\ cmd.idx > Len(Clips)
    /\ Len(Clips) = 1
    /\ is_dirty
    /\ project.some.name = "P"
    /\ modified_at # 0

(* C4.  Auto-stop: while playing, Tick(delta) with time_ms + delta >= D    *)
(* sets time_ms = D and stops; with time_ms + delta < D it sets time_ms to *)
(* time_ms + delta and keeps playing.  Stated for timelines of valid clips *)
(* whose total duration D fits the integer type; the code breaks it when   *)
(* time_ms + delta_ms overflows.                                           *)
C4_AutoStop ==
    [][ ( /\ Returned("Tick")
          /\ is_playing
          /\ AllValid(Clips)
          /\ Duration(Clips) <= MaxU64 )
        => IF time_ms + cmd'.delta_ms >= Duration(Clips)
           THEN time_ms' = Duration(Clips) /\ ~is_playing'
           ELSE time_ms' = time_ms + cmd'.delta_ms /\ is_playing' ]_vars

(* C5.  Seek(t) never fails, sets time_ms to min(t, total duration) and    *)
(* leaves is_playing alone.  Stated for timelines of valid clips; the code *)
(* breaks it when the sum of the durations overflows.                      *)
C5_SeekClamp ==
    [][ (cmd'.op = "Seek" /\ AllValid(Clips))
        => /\ ~panicked'
           /\ time_ms' = Min(cmd'.time, Duration(Clips))
           /\ is_playing' = is_playing ]_vars

---------------------------------------------------------------------------
(* Sequence vocabulary of the editing properties *)

\* s is t with the element x put in at 0-based position k
InsertedAt(s, t, k, x) ==
    /\ Len(s) = Len(t) + 1
    /\ s[k + 1] = x
    /\ \A j \in 1..k : s[j] = t[j]
    /\ \A j \in (k + 1)..Len(t) : s[j + 1] = t[j]

\* s is t without the element at 0-based position k
RemovedAt(s, t, k) ==
    /\ Len(s) = Len(t) - 1
    /\ \A j \in 1..k : s[j] = t[j]
    /\ \A j \in (k + 2)..Len(t) : s[j - 1] = t[j]

IsProperPrefix(p, q) ==
    /\ Len(p) < Len(q)
    /\ \A j \in 1..Len(p) : p[j] = q[j]

(* C6.  AddClip(clip, index) on a timeline of n clips: with index > n the  *)
(* clip becomes the last element, with index <= n it is at position index  *)
(* and the clips from index on move one place right; the length becomes    *)
(* n + 1 and the clips before the insertion point are unchanged.           *)
C6_AddClip ==
    [][ Returned("AddClip")
        => LET n == Len(Clips)
               k == IF cmd'.idx > n THEN n ELSE cmd'.idx
           IN  InsertedAt(Clips', Clips, k, cmd'.clip) ]_vars

\* an AddClip whose index was past the end of a timeline of two different
\* clips, which now ends with the new clip
C6_Witness ==
    /\ cmd.op = "AddClip"
    /\ Len(Clips) = 3
    /\ cmd.idx > 2
    /\ Clips[3] = cmd.clip
    /\ Clips[1] # Clips[2]
    /\ Clips[2] # Clips[3]

(* C7.  CutClip(index, position) with index in range and in_point <        *)
(* position < out_point of the clip at index puts (in_point, position) at  *)
(* index and (position, out_point) at index + 1 in its place, both with    *)
(* the original url and with two different ids that extend the original    *)
(* id; the length grows by one, the other clips keep content and order,    *)
(* and the total duration is unchanged.                                    *)
C7_SplitCorrect ==
    [][ ( /\ Returned("CutClip")
          /\ cmd'.idx < Len(Clips)
          /\ Clips[cmd'.idx + 1].in_point < cmd'.position
          /\ cmd'.position < Clips[cmd'.idx + 1].out_point )
        => LET i == cmd'.idx
               old == Clips[i + 1]
               fst == Clips'[i + 1]
               snd == Clips'[i + 2]
           IN  /\ Len(Clips') = Len(Clips) + 1
               /\ fst.in_point = old.in_point /\ fst.out_point = cmd'.position
               /\ snd.in_point = cmd'.position /\ snd.out_point = old.out_point
               /\ fst.url = old.url /\ snd.url = old.url
               /\ fst.id # snd.id
               /\ IsProperPrefix(old.id, fst.id)
               /\ IsProperPrefix(old.id, snd.id)
               /\ \A j \in 1..i : Clips'[j] = Clips[j]
               /\ \A j \in (i + 2)..Len(Clips) : Clips'[j + 1] = Clips[j]
               /\ Duration(Clips') = Duration(Clips) ]_vars

\* a split of the first of two clips, with the clip after it still in
\* place behind the pair
C7_Witness ==
    /\ cmd.op = "CutClip"
    /\ cmd.idx = 0
    /\ Len(Clips) = 3
    /\ Clips[1].out_point = cmd.position
    /\ Clips[2].in_point = cmd.position
    /\ Clips[1].id = <<"a", now, "A">>
    /\ Clips[2].id = <<"a", now, "B">>
    /\ Clips[3].id = <<"a">>

(* C8.  CutClip(index, position) with index out of range, or with position *)
(* <= in_point or >= out_point of the clip at index, leaves the clip list  *)
(* unchanged; position is compared with the clip's source in/out points,   *)
(* not with the timeline time.                                             *)
C8_SplitRejected ==
    [][ ( /\ Returned("CutClip")
          /\ \/ cmd'.idx >= Len(Clips)
             \/ cmd'.position <= Clips[cmd'.idx + 1].in_point
             \/ cmd'.position >= Clips[cmd'.idx + 1].out_point )
        => Clips' = Clips ]_vars

\* a rejected cut of the first clip at its in_point, a position that lies
\* inside the clip's span on the timeline axis
C8_Witness ==
    /\ cmd.op = "CutClip"
    /\ cmd.idx = 0
    /\ Len(Clips) >= 1
    /\ Valid(Clips[1])
    /\ cmd.position = Clips[1].in_point
    /\ 0 < cmd.position
    /\ cmd.position < Clips[1].out_point - Clips[1].in_point

(* C9.  UpdateClipRange(index, new_in, new_out) with index in range and    *)
(* new_in < new_out sets in_point and out_point of the clip at index in    *)
(* one step and changes nothing else of the clip list; with new_in >=      *)
(* new_out or index out of range the clip list is unchanged.               *)
C9_TrimValidity ==
    [][ Returned("UpdateClipRange")
        => IF cmd'.idx < Len(Clips) /\ cmd'.in_point < cmd'.out_point
           THEN /\ Len(Clips') = Len(Clips)
                /\ Clips'[cmd'.idx + 1] =
                       [id |-> Clips[cmd'.idx + 1].id,
                        url |-> Clips[cmd'.idx + 1].url,
                        in_point |-> cmd'.in_point,
                        out_point |-> cmd'.out_point]
                /\ \A j \in 1..Len(Clips) :
                       j # cmd'.idx + 1 => Clips'[j] = Clips[j]
           ELSE Clips' = Clips ]_vars

\* a trim of the second of two clips that took effect
C9_Witness ==
    /\ cmd.op = "UpdateClipRange"
    /\ cmd.idx = 1
    /\ Len(Clips) = 2
    /\ cmd.in_point < cmd.out_point
    /\ Clips[2].in_point = cmd.in_point
    /\ Clips[2].out_point = cmd.out_point
    /\ Clips[1].in_point # cmd.in_point

(* C10.  RemoveClip(index) with index >= length changes nothing but        *)
(* is_dirty and modified_at; with index < length it removes the clip at    *)
(* index and keeps the other clips in order.                               *)
C10_RemoveClip ==
    [][ Returned("RemoveClip")
        => IF cmd'.idx >= Len(Clips)
           THEN /\ project'.some = [project.some EXCEPT
                                        !.modified_at = modified_at']
                /\ playback_state' = playback_state
                /\ current_file_path' = current_file_path
           ELSE RemovedAt(Clips', Clips, cmd'.idx) ]_vars

\* a RemoveClip past the end of a timeline that holds a clip
C10_Witness ==
    /\ cmd.op = "RemoveClip"
    /\ cmd.idx > Len(Clips)
    /\ Len(Clips) = 1
    /\ ~panicked

(* Vocabulary of the playhead properties *)

\* the timeline position at which clip i (1-based) starts
Start(clips, i) == Duration(SubSeq(clips, 1, i - 1))

\* the clips whose span of the timeline holds the time t
Covering(clips, t) ==
    { i \in 1..Len(clips) : Start(clips, i) <= t /\ t < Start(clips, i + 1) }

\* the answer the resolution is specified to give at time t
Resolved(clips, t) ==
    IF Covering(clips, t) = {} THEN None
    ELSE LET i == CHOOSE j \in Covering(clips, t) : TRUE
         IN  Some([clip |-> clips[i],
                   time_within_clip |->
                       clips[i].in_point + (t - Start(clips, i))])

(* C11.  Playhead resolution: on a timeline of valid clips,                *)
(* get_clip_for_time returns clip i with offset in_point_i + (time_ms -    *)
(* start_i) exactly when start_i <= time_ms < start_i + duration_i, and no *)
(* clip exactly when time_ms >= total duration; a returned offset lies in  *)
(* [in_point_i, out_point_i).  The code breaks it when current_time +      *)
(* clip_duration overflows.                                                *)
C11_PlayheadResolution ==
    [][ (cmd'.op = "get_clip_for_time" /\ AllValid(Clips))
        => /\ ~panicked'
           /\ cmd'.result = Resolved(Clips, time_ms)
           /\ (cmd'.result = None) <=> (time_ms >= Duration(Clips))
           /\ cmd'.result # None =>
                 /\ cmd'.result.some.time_within_clip
                       >= cmd'.result.some.clip.in_point
                 /\ cmd'.result.some.time_within_clip
                       < cmd'.result.some.clip.out_point ]_vars

\* the same on timelines whose total duration fits the integer type
PlayheadResolutionInRange ==
    [][ (cmd'.op = "get_clip_for_time" /\ AllValid(Clips)
           /\ Duration(Clips) <= MaxU64)
        => /\ ~panicked'
           /\ cmd'.result = Resolved(Clips, time_ms) ]_vars

(* C12.  Load project: a failed deserialization returns false and leaves   *)
(* project, is_dirty, current_file_path and playback_state unchanged; a    *)
(* successful one returns true, replaces the project by the one the        *)
(* document describes, sets is_dirty = FALSE and clears current_file_path. *)
(* The load succeeds exactly on the documents that serialize a project.    *)
C12_LoadProject ==
    [][ cmd'.op = "engine_load_project_from_json"
        => LET written == { p \in StoredProjects :
                               to_json(p) = cmd'.json_data }
           IN  /\ cmd'.result <=> (written # {})
               /\ ~cmd'.result =>
                     /\ project' = project
                     /\ is_dirty' = is_dirty
                     /\ current_file_path' = current_file_path
                     /\ playback_state' = playback_state
               /\ cmd'.result =>
                     /\ project' \in { Some(p) : p \in written }
                     /\ is_dirty' = FALSE
                     /\ current_file_path' = None ]_vars

\* a failed load that came after a successful one and a set path, and kept
\* the loaded project, its clean flag and the path
C12_Witness ==
    /\ cmd.op = "engine_load_project_from_json"
    /\ ~cmd.result
    /\ project.some.name = "P"
    /\ Len(Clips) = 1
    /\ ~is_dirty
    /\ current_file_path # None

(* C13.  New project: from any state it yields an empty timeline,          *)
(* is_dirty = TRUE, no current_file_path and the initial playback state    *)
(* (not playing, time_ms = 0).  Mark-as-saved sets is_dirty = FALSE and    *)
(* changes nothing else.  Setting or clearing the current file path        *)
(* changes neither is_dirty nor the project.                               *)
C13_ProjectLifecycle ==
    [][ /\ cmd'.op = "engine_new_project"
            => /\ project' # None
               /\ project'.some.timeline.clips = <<>>
               /\ is_dirty'
               /\ current_file_path' = None
               /\ playback_state' = [is_playing |-> FALSE, time_ms |-> 0]
        /\ cmd'.op = "engine_mark_as_saved"
            => /\ ~is_dirty'
               /\ project' = project
               /\ current_file_path' = current_file_path
               /\ playback_state' = playback_state
        /\ cmd'.op = "engine_set_current_file_path"
            => /\ is_dirty' = is_dirty
               /\ project' = project
               /\ current_file_path' = cmd'.file_path ]_vars

\* a named new project, just made
C13_Witness ==
    /\ cmd.op = "engine_new_project"
    /\ cmd.name = Some("P")
    /\ project.some.name = "P"
    /\ Clips = <<>>
    /\ is_dirty
    /\ current_file_path = None
    /\ ~is_playing
    /\ time_ms = 0

(* C14.  For every command, the event handle returns carries the timeline  *)
(* as it is after the command (what get_timeline returns next), also when  *)
(* the command changed nothing; with no project loaded, handle changes no  *)
(* engine state and returns an empty timeline.                             *)
C14_EventCarriesTimeline ==
    [][ (cmd'.op \in CommandOps /\ ~panicked')
        => /\ event' = [some |-> [clips |-> Clips']]
           /\ project = None =>
                 /\ event' = [some |-> [clips |-> <<>>]]
                 /\ project' = None
                 /\ is_dirty' = is_dirty
                 /\ current_file_path' = current_file_path
                 /\ playback_state' = playback_state ]_vars

\* an AddClip on an engine without a project, paused at a moved playhead
\* with a clean flag: it got the empty timeline back and nothing changed
C14_Witness ==
    /\ project = None
    /\ cmd.op = "AddClip"
    /\ event = [some |-> [clips |-> <<>>]]
    /\ ~is_dirty
    /\ time_ms = 1

(* C15.  Tick(delta) while is_playing = FALSE is a complete no-op for every *)
(* delta in every state: it returns, and time_ms, is_playing, the timeline, *)
(* is_dirty and modified_at are unchanged, also when time_ms is greater     *)
(* than the total duration.                                                 *)
C15_TickWhilePaused ==
    [][ (cmd'.op = "Tick" /\ ~is_playing)
        => /\ ~panicked'
           /\ playback_state' = playback_state
           /\ project' = project
           /\ is_dirty' = is_dirty
           /\ current_file_path' = current_file_path ]_vars

\* a Tick of the largest delta on a paused engine whose playhead lies past
\* the end of a timeline of valid clips
C15_Witness ==
    /\ cmd.op = "Tick"
    /\ cmd.delta_ms = MaxU64
    /\ ~is_playing
    /\ ~panicked
    /\ Len(Clips) = 1
    /\ AllValid(Clips)
    /\ time_ms > Duration(Clips)

(* C16.  The playhead never lies beyond the end of the timeline: in every  *)
(* reachable state time_ms <= total duration.  Stated for timelines of     *)
(* valid clips.  The code does not keep it: only Seek and Tick clamp, and  *)
(* an edit or a load that shortens the timeline leaves time_ms as it was.  *)
C16_PlayheadWithinTimeline ==
    AllValid(Clips) => time_ms <= Duration(Clips)

(* C17.  Edit and playback commands have disjoint effects: AddClip,        *)
(* RemoveClip, CutClip and UpdateClipRange never change playback_state;    *)
(* Play, Pause, Seek and Tick never change the clip list; Play and Pause   *)
(* change only is_playing, never time_ms, and are idempotent: applied to   *)
(* the state they produced they give that state again.                     *)
C17_DisjointEffects ==
    [][ /\ cmd'.op \in EditOps => playback_state' = playback_state
        /\ cmd'.op \in PlaybackOps => Clips' = Clips
        /\ cmd'.op \in {"Play", "Pause"} =>
              /\ ~panicked'
              /\ is_playing' = (cmd'.op = "Play")
              /\ time_ms' = time_ms
              /\ MatchPlayback(playback_state', Clips', cmd', TRUE)
                    = [panic |-> FALSE, value |-> playback_state']
              /\ MatchClips(Clips', cmd', now') = Clips' ]_vars

\* a Play on an engine whose playhead is in the middle of a clip
C17_Witness ==
    /\ cmd.op = "Play"
    /\ is_playing
    /\ time_ms = 1
    /\ Len(Clips) = 1
    /\ AllValid(Clips)
    /\ time_ms < Duration(Clips)

\* what get_clip_for_time reports at time t, without the clip id
Plays(clips, t, checks) ==
    LET r == ScanClips(clips, t, 0, checks)
    IN  IF r.panic THEN [panic |-> TRUE]
        ELSE IF r.value = None THEN [panic |-> FALSE, plays |-> None]
        ELSE [panic |-> FALSE,
              plays |-> Some([url |-> r.value.some.clip.url,
                              offset |-> r.value.some.time_within_clip])]

CutPreserves(before, after, idx) ==
    /\ \A t \in U64, checks \in BOOLEAN :
          Plays(after, t, checks) = Plays(before, t, checks)
    /\ \A j \in (idx + 2)..Len(before) :
          Start(after, j + 1) = Start(before, j)

(* C18.  A successful CutClip preserves what plays at every instant: on a  *)
(* timeline of valid clips, for every time t, the url and source offset    *)
(* that get_clip_for_time resolves at time_ms = t are the same before and  *)
(* after the cut, and every clip after the split pair starts where it      *)
(* started.  The code breaks it when current_time + clip_duration          *)
(* overflows: the cut moves the point at which the scan overflows.         *)
C18_CutPreservesPlayback ==
    [][ ( /\ Returned("CutClip")
          /\ CutAccepted(Clips, cmd'.idx, cmd'.position)
          /\ AllValid(Clips) )
        => CutPreserves(Clips, Clips', cmd'.idx) ]_vars

\* the same on timelines whose total duration fits the integer type
CutPreservesPlaybackInRange ==
    [][ ( /\ Returned("CutClip")
          /\ CutAccepted(Clips, cmd'.idx, cmd'.position)
          /\ AllValid(Clips)
          /\ Duration(Clips) <= MaxU64 )
        => CutPreserves(Clips, Clips', cmd'.idx) ]_vars

(* C19.  The dirty flag never hides an edit: whenever is_dirty = FALSE the  *)
(* clip list is the one of the most recent mark-as-saved or successful      *)
(* load.  Stated on steps: the flag is clear after a step only if the step  *)
(* is a mark-as-saved or a successful load, or the flag was clear before    *)
(* and the step left the clip list as it was; so a command that changes the *)
(* timeline leaves is_dirty = TRUE until the next mark-as-saved or load.    *)
C19_DirtyNeverHidesEdit ==
    [][ ~is_dirty'
        => \/ cmd'.op = "engine_mark_as_saved"
           \/ cmd'.op = "engine_load_project_from_json" /\ cmd'.result
           \/ ~is_dirty /\ Clips' = Clips ]_vars

\* a trim of the clip of a loaded project (only a load brings a clip "b"),
\* which left the project dirty
C19_Witness ==
    /\ cmd.op = "UpdateClipRange"
    /\ Len(Clips) = 1
    /\ Clips[1].id = <<"b">>
    /\ Clips[1].in_point = 1
    /\ Clips[1].out_point = 2
    /\ is_dirty

(* C20.  Playback eventually stops at the end: from a state with           *)
(* is_playing = TRUE, when Ticks with delta >= 1 keep being delivered and   *)
(* nothing else intervenes, a state with is_playing = FALSE and time_ms =   *)
(* total duration is eventually reached, and time_ms never decreases across *)
(* those Ticks when it started at or below the total duration.  Stated for  *)
(* timelines of valid clips whose total duration fits the integer type; the *)
(* code breaks it when time_ms + delta_ms overflows.                        *)
C20_PlaybackStops ==
    /\ [][ ( /\ cmd'.op = "Tick"
              /\ is_playing
              /\ AllValid(Clips)
              /\ Duration(Clips) <= MaxU64
              /\ time_ms <= Duration(Clips) )
            => (~panicked' /\ time_ms' >= time_ms) ]_vars
    /\ []( ( /\ cmd.op = "Tick"
              /\ is_playing
              /\ AllValid(Clips)
              /\ Duration(Clips) <= MaxU64 )
            => <>(~is_playing /\ time_ms = Duration(Clips)) )

====
